---- MODULE Spec2Model ----
(***************************************************************************)
(* A model of the payroll and notification core of app.py                  *)
(* (calculate_payroll, check_notifications and the storage readers they    *)
(* call).                                                                  *)
(*                                                                         *)
(* Units.  Python floats are modelled by exact integers in units in which  *)
(* every value of the model is a whole number, so that float arithmetic    *)
(* on them is exact (all values are dyadic rationals of small size):       *)
(*   money        sixteenths of a rupee   (Rupees(800) = 800.00)           *)
(*   hours        half hours              (Hrs(8) = 8.0 hours)             *)
(*   day counts   sixteenths of a day                                      *)
(* Rounded results are in cents (round(x, 2)) and in thousandths of a day  *)
(* (round(x, 3)).  A float is a record [k, v]: k = "num" with value v, or  *)
(* k = "nan"; k = "none" is Python's None.                                 *)
(***************************************************************************)
EXTENDS Integers, Sequences, FiniteSets, TLC

VARIABLES
    workers,      \* table workers: sequence, workers[i].id = i, in name order
    attendance,   \* table attendance: set of rows [id, worker_id, date, status, hours]
    payments,     \* table worker_payments: set of rows [id, worker_id, date, amount, type]
    transactions, \* table transactions: set of rows [id, date, type, amount]
    settings,     \* table settings: key -> <<>> (no row) or <<value>>
    na_object,    \* what GroupBy.last() of this pandas build gives for an all-null object column
    payroll,      \* the calculate_payroll call of the last page run, if it made one: its arguments, what storage returned, its rows
    notes,        \* the check_notifications call of the last page run, if it made one: its messages
    serial,       \* the next id of each table with a serial id
    sessions,     \* per browser session: where its run of the Save Attendance handler stands
    history,      \* the last Save Attendance write that reached storage, and how it ran
    nav           \* per browser session: st.session_state and what the last run of main() rendered

vars == <<workers, attendance, payments, transactions, settings, na_object, payroll, notes,
          serial, sessions, history, nav>>

-----------------------------------------------------------------------------
(* Bounds of the model *)

MaxWorkers == 2
\* rows of attendance and worker_payments together
MaxRows == 2
MaxDate == 2

Rupees(n) == 16 * n
Hrs(n) == 2 * n

Dates == 1..MaxDate
Statuses == {"Present", "Absent", "Leave", "Half-Day"}
\* daily_rate values: 800 (the spec's example) and 801 (an odd rate, whose hourly pay has half cents)
Rates == {Rupees(800), Rupees(801)}
\* the daily_rate of the stored worker id: 800.00 for the odd ids, 801.00 for the even ones
RateOf(id) == IF id % 2 = 1 THEN Rupees(800) ELSE Rupees(801)
\* hours values stored in attendance: null, 0, 1 hour, 10 hours
Null == <<>>
HoursValues == {Null, <<0>>, <<Hrs(1)>>, <<Hrs(10)>>}
\* payment amounts: 100.25 and 500.00
Amounts == {Rupees(100) + 4, Rupees(500)}
PayTypes == {"PAYMENT", "ADVANCE"}

\* rows of transactions
MaxTx == 4
\* browser sessions
MaxSessions == 2
Sessions == 1..MaxSessions
\* timedelta(days=30) of check_notifications
WindowDays == 30
\* date.today(), as a day number
Today == WindowDays + 2
\* transaction dates: the day before the window, its first day, two days ago, yesterday, today
TxDates == {Today - WindowDays - 1, Today - WindowDays, Today - 2, Today - 1, Today}
\* the transactions of the model: expenses of 100, 200, 300 and 350, incomes of 200
TxKinds ==
    [date : TxDates, type : {"EXPENSE"}, amount : {Rupees(100), Rupees(200), Rupees(300), Rupees(350)}]
    \cup [date : TxDates, type : {"INCOME"}, amount : {Rupees(200)}]
SettingKeys == {"expense_threshold", "fund_flow_threshold"}
\* stored setting values: no row, 0, 300
SettingValues == {<<>>, <<0>>, <<Rupees(300)>>}

-----------------------------------------------------------------------------
(* Python values *)

Num(v) == [k |-> "num", v |-> v]
NaN == [k |-> "nan", v |-> 0]
PyNone == [k |-> "none", v |-> 0]

\* a + b on floats
FAdd(a, b) == IF a.k = "nan" \/ b.k = "nan" THEN NaN ELSE Num(a.v + b.v)
\* a - b on floats
FSub(a, b) == IF a.k = "nan" \/ b.k = "nan" THEN NaN ELSE Num(a.v - b.v)

\* n / d rounded to the nearest integer, ties to the even one (d > 0)
RoundHalfEven(n, d) ==
    LET q == n \div d
        r == n % d
    IN  IF 2 * r < d THEN q
        ELSE IF 2 * r > d THEN q + 1
        ELSE IF q % 2 = 0 THEN q ELSE q + 1

\* round(x, 2) of a money float: sixteenths of a rupee to cents
Round2(x) == IF x.k = "nan" THEN NaN ELSE Num(RoundHalfEven(x.v * 100, 16))
\* round(x, 3) of a day count: sixteenths of a day to thousandths
Round3(x) == IF x.k = "nan" THEN NaN ELSE Num(RoundHalfEven(x.v * 1000, 16))

\* min(h, 8.0): Python's min keeps its first argument unless the second is smaller
PyMin8(h) == IF h.k = "nan" THEN NaN ELSE Num(IF Hrs(8) < h.v THEN Hrs(8) ELSE h.v)
\* max(0.0, h - 8.0): Python's max keeps 0.0 unless the second is greater (never for nan)
PyMax0(h) == IF h.k = "nan" THEN Num(0) ELSE Num(IF h.v - Hrs(8) > 0 THEN h.v - Hrs(8) ELSE 0)

RECURSIVE SumSeq(_)
SumSeq(s) == IF s = <<>> THEN 0 ELSE Head(s) + SumSeq(Tail(s))

-----------------------------------------------------------------------------
(* Storage access layer *)

\* The sequences storage may return for a set of rows under order("date"):
\* every order of the rows in which the dates do not decrease.
OrderedByDate(rows) ==
    LET n == Cardinality(rows)
    IN  { s \in [1..n -> rows] :
            /\ \A i, j \in 1..n : i # j => s[i] # s[j]
            /\ \A i \in 1..n : i < n => s[i].date <= s[i + 1].date }

\* get_workers_df without the is_active filter
get_workers_df_Unfiltered(active_only) == workers

\* get_workers_df(conn, active_only): the rows in name order
get_workers_df(active_only) ==
    SelectSeq(workers, LAMBDA w : ~active_only \/ w.is_active)

\* get_attendance_range_df without the date filters
get_attendance_range_df_NoRange(start_date, end_date) == OrderedByDate(attendance)

\* get_attendance_range_df: the attendance rows storage may return for [start, end]
get_attendance_range_df(start_date, end_date) ==
    OrderedByDate({ a \in attendance : start_date <= a.date /\ a.date <= end_date })

\* get_worker_payments_range_df without the date filters
get_worker_payments_range_df_NoRange(start_date, end_date) == OrderedByDate(payments)

\* get_worker_payments_range_df: the payment rows storage may return for [start, end]
get_worker_payments_range_df(start_date, end_date) ==
    OrderedByDate({ p \in payments : start_date <= p.date /\ p.date <= end_date })

\* get_transactions_df without the date filters
get_transactions_df_NoRange(start_date, end_date) == OrderedByDate(transactions)

\* get_transactions_df: the transactions storage may return for [start, end]
get_transactions_df(start_date, end_date) ==
    OrderedByDate({ t \in transactions : start_date <= t.date /\ t.date <= end_date })

\* get_setting returning the caller's default whatever is stored
get_setting_AlwaysDefault(key, default) == default

\* get_setting returning the default also when the stored value is 0
get_setting_ZeroAsUnset(key, default) ==
    IF settings[key] = <<>> \/ settings[key][1] = 0 THEN default
    ELSE [num |-> settings[key][1], den |-> 1]

\* get_setting(conn, key, default): the default when no row is stored, else the
\* stored text as a float; a number is a fraction [num, den]
get_setting(key, default) ==
    IF settings[key] = <<>> THEN default ELSE [num |-> settings[key][1], den |-> 1]

\* pd.DataFrame(res.data) on the hours column: float64 with NaN for null as soon
\* as one row holds a number, object with None when every row is null
HoursColumn(att_df) ==
    LET numeric == \E i \in 1..Len(att_df) : att_df[i].hours # Null
    IN  [ i \in 1..Len(att_df) |->
            IF att_df[i].hours # Null THEN Num(att_df[i].hours[1])
            ELSE IF numeric THEN NaN ELSE PyNone ]

\* the frame of calculate_payroll: the rows with the hours cell pandas holds
DataFrame(att_df) ==
    LET col == HoursColumn(att_df)
    IN  [ i \in 1..Len(att_df) |->
            [id |-> att_df[i].id, worker_id |-> att_df[i].worker_id, date |-> att_df[i].date,
             status |-> att_df[i].status, hours |-> col[i]] ]

-----------------------------------------------------------------------------
(* calculate_payroll *)

\* sort_values("date"): the rows by date, rows of one date in the order they had
SortByDate(df) ==
    LET RECURSIVE Upto(_)
        Upto(d) == IF d = 0 THEN <<>>
                   ELSE Upto(d - 1) \o SelectSeq(df, LAMBDA r : r.date = d)
    IN  Upto(MaxDate)

\* GroupBy.last() on one column: the last value of the group that is not null,
\* and the column's null when there is none
LastNotNull(cells, na) ==
    LET RECURSIVE Scan(_)
        Scan(i) == IF i = 0 THEN na
                   ELSE IF cells[i].k = "num" THEN cells[i] ELSE Scan(i - 1)
    IN  Scan(Len(cells))

\* w_att.assign(att_day=...).sort_values("date").groupby("att_day").last().reset_index():
\* one record per day of w_att, days ascending, each column's last non-null value
w_att_by_day(w_att) ==
    LET sorted == SortByDate(w_att)
        na == IF \E i \in 1..Len(w_att) : w_att[i].hours.k = "none" THEN na_object ELSE NaN
        Group(d) == SelectSeq(sorted, LAMBDA r : r.date = d)
        Collapsed(d) ==
            LET g == Group(d)
            IN  [att_day |-> d,
                 status |-> g[Len(g)].status,
                 hours |-> LastNotNull([i \in 1..Len(g) |-> g[i].hours], na)]
        RECURSIVE Days(_)
        Days(d) == IF d = 0 THEN <<>>
                   ELSE Days(d - 1) \o (IF Group(d) = <<>> THEN <<>> ELSE <<Collapsed(d)>>)
    IN  Days(MaxDate)

\* hours = float(hours) if hours not in (None, "") else 8.0
HoursOf(cell) == IF cell.k = "none" THEN Num(Hrs(8)) ELSE cell

\* the totals before any day
ZeroTotals ==
    [gross_salary |-> Num(0), days_present |-> 0, half_days |-> 0,
     overtime_hours_total |-> Num(0), worked_days_equivalent |-> Num(0)]

\* PresentDay paying every hour worked as base hours and the hours over 8 again as overtime
PresentDay_NoCap(t, hours0, rate) ==
    LET hours == IF hours0.k = "num" /\ hours0.v <= 0 THEN Num(Hrs(8)) ELSE hours0
        overtime_hours == PyMax0(hours)
        base_pay == IF hours.k = "nan" THEN NaN ELSE Num((hours.v * rate) \div Hrs(8))
        overtime_pay == Num((overtime_hours.v * rate) \div Hrs(8))
    IN  [gross_salary |-> FAdd(t.gross_salary, FAdd(base_pay, overtime_pay)),
         days_present |-> t.days_present + (IF hours.k = "num" /\ hours.v > 0 THEN 1 ELSE 0),
         half_days |-> t.half_days,
         overtime_hours_total |-> FAdd(t.overtime_hours_total, overtime_hours),
         worked_days_equivalent |-> FAdd(t.worked_days_equivalent, FAdd(hours, overtime_hours))]

\* the body of the loop over w_att_by_day for a Present day
PresentDay(t, hours0, rate) ==
    LET hours == IF hours0.k = "num" /\ hours0.v <= 0 THEN Num(Hrs(8)) ELSE hours0
        base_hours == PyMin8(hours)
        overtime_hours == PyMax0(hours)
        \* (base_hours / 8.0) * rate
        base_pay == IF base_hours.k = "nan" THEN NaN ELSE Num((base_hours.v * rate) \div Hrs(8))
        \* overtime_hours * (rate / 8.0)
        overtime_pay == Num((overtime_hours.v * rate) \div Hrs(8))
        day_pay == FAdd(base_pay, overtime_pay)
    IN  [gross_salary |-> FAdd(t.gross_salary, day_pay),
         days_present |-> t.days_present + (IF base_hours.k = "num" /\ base_hours.v > 0 THEN 1 ELSE 0),
         half_days |-> t.half_days,
         overtime_hours_total |-> FAdd(t.overtime_hours_total, overtime_hours),
         worked_days_equivalent |->
             FAdd(t.worked_days_equivalent, FAdd(base_hours, overtime_hours))]

\* HalfDay counted as a Present day of 4 hours
HalfDay_AsPresent(t, rate) ==
    [gross_salary |-> FAdd(t.gross_salary, Num(rate \div 2)),
     days_present |-> t.days_present + 1,
     half_days |-> t.half_days,
     overtime_hours_total |-> t.overtime_hours_total,
     worked_days_equivalent |-> FAdd(t.worked_days_equivalent, Num(Hrs(4)))]

\* the body of the loop for a Half-Day day
HalfDay(t, rate) ==
    [gross_salary |-> FAdd(t.gross_salary, Num(rate \div 2)),
     days_present |-> t.days_present,
     half_days |-> t.half_days + 1,
     overtime_hours_total |-> t.overtime_hours_total,
     worked_days_equivalent |-> FAdd(t.worked_days_equivalent, Num(Hrs(4)))]

\* one pass of the loop over w_att_by_day
DayStep(t, day_row, rate) ==
    LET hours == HoursOf(day_row.hours)
    IN  IF day_row.status = "Present" THEN PresentDay(t, hours, rate)
        ELSE IF day_row.status = "Half-Day" THEN HalfDay(t, rate)
        ELSE t

\* the loop over w_att_by_day
RECURSIVE DayLoop(_, _, _)
DayLoop(t, days, rate) ==
    IF days = <<>> THEN t ELSE DayLoop(DayStep(t, Head(days), rate), Tail(days), rate)

\* float(w_pay[w_pay["type"] == type]["amount"].sum())
PaySum(w_pay, type) ==
    SumSeq([ i \in 1..Len(w_pay) |-> IF w_pay[i].type = type THEN w_pay[i].amount ELSE 0 ])

\* the row calculate_payroll appends for worker w, given the collapsed days of w
RowOfDays(w, days, pay_df) ==
    LET rate == w.daily_rate
        t == DayLoop(ZeroTotals, days, rate)
        w_pay == SelectSeq(pay_df, LAMBDA p : p.worker_id = w.id)
        advances == Num(PaySum(w_pay, "ADVANCE"))
        pays == Num(PaySum(w_pay, "PAYMENT"))
        net_payable == FSub(FSub(t.gross_salary, advances), pays)
    IN  [worker_id |-> w.id,
         daily_rate |-> rate,
         days_present |-> t.days_present,
         half_days |-> t.half_days,
         overtime_hours |-> t.overtime_hours_total,
         worked_days_equivalent |-> Round3(t.worked_days_equivalent),
         gross_salary |-> Round2(t.gross_salary),
         total_advance |-> Round2(advances),
         total_payment_done |-> Round2(pays),
         net_payable |-> Round2(net_payable)]

\* one pass of the loop over workers_df
PayrollRow(w, att_df, pay_df) ==
    LET w_att == SelectSeq(att_df, LAMBDA r : r.worker_id = w.id)
    IN  RowOfDays(w, IF w_att = <<>> THEN <<>> ELSE w_att_by_day(w_att), pay_df)

\* calculate_payroll on what storage returned: att_rows and pay_rows are the
\* results of the two range reads
calculate_payroll(att_rows, pay_rows) ==
    LET workers_df == get_workers_df(TRUE)
        att_df == DataFrame(att_rows)
    IN  IF workers_df = <<>> THEN <<>>
        ELSE [ i \in 1..Len(workers_df) |-> PayrollRow(workers_df[i], att_df, pay_rows) ]

\* st.session_state of a logged-in session whose run rendered the dashboard
OnDashboard ==
    [logged_in |-> TRUE, active_page |-> "Dashboard", clicked |-> "",
     rendered |-> <<"render_dashboard">>]

\* no Save Attendance handler in flight in the session
Idle == [pc |-> "idle"]
\* no Save Attendance write yet
NoHistory == [save |-> <<>>, op |-> "none", alone |-> FALSE, raced |-> FALSE]

NoPayroll == [called |-> FALSE, start |-> 0, end |-> 0, att |-> <<>>, pay |-> <<>>, rows |-> <<>>]
NoNotes == [called |-> FALSE, msgs |-> <<>>]

\* render_payroll: the page run calls calculate_payroll(conn, start, end)
RenderPayroll(start, end) ==
    /\ \E att_rows \in get_attendance_range_df(start, end) :
       \E pay_rows \in get_worker_payments_range_df(start, end) :
          payroll' = [called |-> TRUE, start |-> start, end |-> end,
                      att |-> att_rows, pay |-> pay_rows,
                      rows |-> calculate_payroll(att_rows, pay_rows)]
    /\ notes' = NoNotes
    /\ UNCHANGED <<workers, attendance, payments, transactions, settings, na_object, nav,
                   serial, sessions, history>>

-----------------------------------------------------------------------------
(* check_notifications *)

\* x > t for a number x and a fraction t
Above(x, t) == x * t.den > t.num

\* tx[tx["type"] == type]["amount"].sum() over the rows of tx dated d
DaySum(tx, type, d) ==
    SumSeq([ i \in 1..Len(tx) |->
               IF tx[i].type = type /\ tx[i].date = d THEN tx[i].amount ELSE 0 ])

\* tx[tx["type"] == "EXPENSE"].groupby(tx["date"].dt.date): the days with an expense row
ExpenseDays(tx) == { tx[i].date : i \in { j \in 1..Len(tx) : tx[j].type = "EXPENSE" } }

\* avg_daily_expense as the mean over every day of the window, with or without an expense row
avg_daily_expense_AllDays(tx) ==
    LET total == SumSeq([ i \in 1..Len(tx) |-> IF tx[i].type = "EXPENSE" THEN tx[i].amount ELSE 0 ])
    IN  [num |-> total, den |-> WindowDays + 1]

\* daily_expenses.mean(), 0 when there is no expense day: the fraction total / days
avg_daily_expense(tx) ==
    LET days == ExpenseDays(tx)
        total == SumSeq([ i \in 1..Len(tx) |-> IF tx[i].type = "EXPENSE" THEN tx[i].amount ELSE 0 ])
    IN  IF days = {} THEN [num |-> 0, den |-> 1] ELSE [num |-> total, den |-> Cardinality(days)]

\* DefaultThreshold with the factor 1.5 of the expense check for both checks
DefaultThreshold_OneAndHalf(avg, mul, div) ==
    IF avg.num # 0 THEN [num |-> avg.num * 3, den |-> avg.den * 2] ELSE [num |-> 0, den |-> 1]

\* avg_daily_expense * k if avg_daily_expense else 0, k = mul / div
DefaultThreshold(avg, mul, div) ==
    IF avg.num # 0 THEN [num |-> avg.num * mul, den |-> avg.den * div] ELSE [num |-> 0, den |-> 1]

\* check_notifications appending the fund-flow message before the expense message
check_notifications_FlowFirst(tx) ==
    IF tx = <<>> THEN <<>>
    ELSE
    LET today_expense == DaySum(tx, "EXPENSE", Today)
        avg == avg_daily_expense(tx)
        expense_threshold == get_setting("expense_threshold", DefaultThreshold(avg, 3, 2))
        high == IF expense_threshold.num # 0 /\ Above(today_expense, expense_threshold)
                THEN <<[kind |-> "High daily expense", value |-> today_expense,
                        threshold |-> expense_threshold]>>
                ELSE <<>>
        total_flow_today == today_expense + DaySum(tx, "INCOME", Today)
        flow_threshold == get_setting("fund_flow_threshold", DefaultThreshold(avg, 2, 1))
        heavy == IF flow_threshold.num # 0 /\ Above(total_flow_today, flow_threshold)
                 THEN <<[kind |-> "Heavy fund flow", value |-> total_flow_today,
                         threshold |-> flow_threshold]>>
                 ELSE <<>>
    IN  heavy \o high

\* check_notifications on the transactions tx storage returned for the window
check_notifications(tx) ==
    IF tx = <<>> THEN <<>>
    ELSE
    LET today_expense == DaySum(tx, "EXPENSE", Today)
        avg == avg_daily_expense(tx)
        expense_threshold == get_setting("expense_threshold", DefaultThreshold(avg, 3, 2))
        high == IF expense_threshold.num # 0 /\ Above(today_expense, expense_threshold)
                THEN <<[kind |-> "High daily expense", value |-> today_expense,
                        threshold |-> expense_threshold]>>
                ELSE <<>>
        total_in_today == DaySum(tx, "INCOME", Today)
        total_flow_today == today_expense + total_in_today
        flow_threshold == get_setting("fund_flow_threshold", DefaultThreshold(avg, 2, 1))
        heavy == IF flow_threshold.num # 0 /\ Above(total_flow_today, flow_threshold)
                 THEN <<[kind |-> "Heavy fund flow", value |-> total_flow_today,
                         threshold |-> flow_threshold]>>
                 ELSE <<>>
    IN  high \o heavy

\* render_dashboard: the page run calls check_notifications(conn)
RenderDashboard ==
    /\ \E tx \in get_transactions_df(Today - WindowDays, Today) :
          notes' = [called |-> TRUE, msgs |-> check_notifications(tx)]
    /\ payroll' = NoPayroll
    /\ UNCHANGED <<workers, attendance, payments, transactions, settings, na_object, nav,
                   serial, sessions, history>>

-----------------------------------------------------------------------------
(* render_attendance: the Save Attendance handler, step by step *)

\* what the attendance form submits: status and hours (a number, 8.0 by default)
FormMarks == {<<"Present", Hrs(8)>>, <<"Present", Hrs(1)>>, <<"Absent", Hrs(8)>>}

\* the ids of the active workers, which the form offers
ActiveIds == { i \in DOMAIN workers : workers[i].is_active }

\* the number of sessions inside the handler
InFlight == Cardinality({ s \in Sessions : sessions[s].pc # "idle" })

\* the number of sessions whose select found no row, which will insert one
PendingInserts ==
    Cardinality({ s \in Sessions : sessions[s].pc # "idle" /\ sessions[s].found = <<>> })

\* select("id").eq("worker_id", ...).eq("date", ...): the handler keeps
\* res.data[0], the first row storage returns, which may be any matching row
SaveSelect(s, worker_id, att_date, mark) ==
    /\ sessions[s].pc = "idle"
    /\ worker_id \in ActiveIds
    /\ LET matching == { a \in attendance : a.worker_id = worker_id /\ a.date = att_date }
           Running(found) ==
               [pc |-> "selected", worker_id |-> worker_id, date |-> att_date,
                status |-> mark[1], hours |-> mark[2], found |-> found,
                alone |-> InFlight = 0,
                raced |-> \E t \in Sessions :
                             /\ sessions[t].pc # "idle"
                             /\ sessions[t].worker_id = worker_id /\ sessions[t].date = att_date]
           Others(t) ==
               IF sessions[t].pc = "idle" THEN sessions[t]
               ELSE [sessions[t] EXCEPT
                       !.alone = FALSE,
                       !.raced = @ \/ (sessions[t].worker_id = worker_id
                                       /\ sessions[t].date = att_date)]
       IN  \E found \in (IF matching = {} THEN {<<>>} ELSE { <<a.id>> : a \in matching }) :
              /\ found = <<>> =>
                    (serial.attendance - 1) + PendingInserts + Cardinality(payments) < MaxRows
              /\ sessions' = [t \in Sessions |-> IF t = s THEN Running(found) ELSE Others(t)]
    /\ payroll' = NoPayroll
    /\ notes' = NoNotes
    /\ UNCHANGED <<workers, attendance, payments, transactions, settings, na_object, nav,
                   serial, history>>

\* if res.data: update(...).eq("id", att_id) else: insert(...)
SaveWrite(s) ==
    /\ sessions[s].pc = "selected"
    /\ LET me == sessions[s]
       IN  /\ IF me.found # <<>>
              THEN /\ attendance' =
                        { IF a.id = me.found[1]
                          THEN [a EXCEPT !.status = me.status, !.hours = <<me.hours>>]
                          ELSE a : a \in attendance }
                   /\ serial' = serial
              ELSE /\ attendance' = attendance \cup
                        {[id |-> serial.attendance, worker_id |-> me.worker_id, date |-> me.date,
                          status |-> me.status, hours |-> <<me.hours>>]}
                   /\ serial' = [serial EXCEPT !.attendance = @ + 1]
           /\ history' = [save |-> <<[worker_id |-> me.worker_id, date |-> me.date,
                                      status |-> me.status, hours |-> me.hours]>>,
                          op |-> IF me.found # <<>> THEN "update" ELSE "insert",
                          alone |-> me.alone /\ InFlight = 1,
                          raced |-> me.raced /\ InFlight = 1]
    /\ sessions' = [sessions EXCEPT ![s] = Idle]
    /\ payroll' = NoPayroll
    /\ notes' = NoNotes
    /\ UNCHANGED <<workers, payments, transactions, settings, na_object, nav>>

-----------------------------------------------------------------------------
(* The pages that write: each action is one run of a form handler *)

\* what the forms submit
AppMarks == {<<"Present", Hrs(1)>>, <<"Absent", Hrs(8)>>}
FormRates == {0, Rupees(801)}
FormAmounts == {0, Rupees(100) + 4}
FormTxAmounts == {0, Rupees(350)}
\* the two thresholds of the settings form: (expense, fund flow)
FormSettings == {<<Rupees(300), 0>>, <<0, Rupees(300)>>}
\* ids a table hands out before the model stops inserting
MaxIds == 2
\* rows of transactions the pages insert
MaxAppTx == 1

\* a page run that writes shows neither the payroll nor the notifications
NoPageResult ==
    /\ payroll' = NoPayroll
    /\ notes' = NoNotes

\* render_workers, Add Worker: rejected without a name or with a rate <= 0
AddWorker(named, daily_rate, is_active) ==
    /\ Len(workers) < MaxWorkers
    /\ IF ~named \/ daily_rate <= 0
       THEN workers' = workers
       ELSE workers' = Append(workers, [id |-> Len(workers) + 1, daily_rate |-> daily_rate,
                                        is_active |-> is_active])
    /\ NoPageResult
    /\ UNCHANGED <<attendance, payments, transactions, settings, na_object, nav,
                   serial, sessions, history>>

\* render_workers, Save Changes: update(...).eq("id", selected_id)
UpdateWorker(selected_id, new_daily_rate, new_active) ==
    /\ selected_id \in DOMAIN workers
    /\ workers' = [workers EXCEPT ![selected_id] =
                      [id |-> selected_id, daily_rate |-> new_daily_rate,
                       is_active |-> new_active]]
    /\ NoPageResult
    /\ UNCHANGED <<attendance, payments, transactions, settings, na_object, nav,
                   serial, sessions, history>>

\* Mark as Inactive also deleting the worker's attendance and payment rows
MarkInactive_Cascade(selected_id) ==
    /\ selected_id \in DOMAIN workers
    /\ workers' = [workers EXCEPT ![selected_id].is_active = FALSE]
    /\ attendance' = { a \in attendance : a.worker_id # selected_id }
    /\ payments' = { q \in payments : q.worker_id # selected_id }
    /\ NoPageResult
    /\ UNCHANGED <<transactions, settings, na_object, nav, serial, sessions, history>>

\* render_workers, Mark as Inactive: update({"is_active": False}).eq("id", selected_id)
MarkInactive(selected_id) ==
    /\ selected_id \in DOMAIN workers
    /\ workers' = [workers EXCEPT ![selected_id].is_active = FALSE]
    /\ NoPageResult
    /\ UNCHANGED <<attendance, payments, transactions, settings, na_object, nav,
                   serial, sessions, history>>

\* Save Attendance inserting a row whether or not one exists for the pair
SaveAttendance_AlwaysInsert(worker_id, att_date, mark) ==
    /\ worker_id \in ActiveIds
    /\ InFlight = 0
    /\ Cardinality(attendance) + Cardinality(payments) < MaxRows
    /\ serial.attendance <= MaxIds
    /\ attendance' = attendance \cup
           {[id |-> serial.attendance, worker_id |-> worker_id, date |-> att_date,
             status |-> mark[1], hours |-> <<mark[2]>>]}
    /\ serial' = [serial EXCEPT !.attendance = @ + 1]
    /\ history' = [save |-> <<[worker_id |-> worker_id, date |-> att_date,
                               status |-> mark[1], hours |-> mark[2]]>>,
                   op |-> "insert", alone |-> TRUE, raced |-> FALSE]
    /\ NoPageResult
    /\ UNCHANGED <<workers, payments, transactions, settings, na_object, nav, sessions>>

\* render_attendance, Save Attendance, run from its select to its write: the
\* first row found for (worker, date) is updated in place, a row is inserted
\* when none is found
SaveAttendance(worker_id, att_date, mark) ==
    /\ worker_id \in ActiveIds
    /\ InFlight = 0
    /\ LET matching == { a \in attendance : a.worker_id = worker_id /\ a.date = att_date }
       IN  IF matching # {}
           THEN /\ \E att_id \in { a.id : a \in matching } :
                      attendance' =
                          { IF a.id = att_id
                            THEN [a EXCEPT !.status = mark[1], !.hours = <<mark[2]>>]
                            ELSE a : a \in attendance }
                /\ serial' = serial
                /\ history' = [save |-> <<[worker_id |-> worker_id, date |-> att_date,
                                           status |-> mark[1], hours |-> mark[2]]>>,
                               op |-> "update", alone |-> TRUE, raced |-> FALSE]
           ELSE /\ Cardinality(attendance) + Cardinality(payments) < MaxRows
                /\ serial.attendance <= MaxIds
                /\ attendance' = attendance \cup
                       {[id |-> serial.attendance, worker_id |-> worker_id, date |-> att_date,
                         status |-> mark[1], hours |-> <<mark[2]>>]}
                /\ serial' = [serial EXCEPT !.attendance = @ + 1]
                /\ history' = [save |-> <<[worker_id |-> worker_id, date |-> att_date,
                                           status |-> mark[1], hours |-> mark[2]]>>,
                               op |-> "insert", alone |-> TRUE, raced |-> FALSE]
    /\ NoPageResult
    /\ UNCHANGED <<workers, payments, transactions, settings, na_object, nav, sessions>>

\* render_attendance, Modify Existing Attendance, Save Changes:
\* update(...).eq("id", selected_row["id"]); the page needs an active worker
ModifyAttendance(att_id, mark) ==
    /\ ActiveIds # {}
    /\ \E a \in attendance : a.id = att_id
    /\ attendance' = { IF a.id = att_id
                       THEN [a EXCEPT !.status = mark[1], !.hours = <<mark[2]>>]
                       ELSE a : a \in attendance }
    /\ history' = NoHistory
    /\ NoPageResult
    /\ UNCHANGED <<workers, payments, transactions, settings, na_object, nav, serial, sessions>>

\* render_attendance, Delete Record: delete().eq("id", selected_row["id"])
DeleteAttendance(att_id) ==
    /\ ActiveIds # {}
    /\ \E a \in attendance : a.id = att_id
    /\ attendance' = { a \in attendance : a.id # att_id }
    /\ history' = NoHistory
    /\ NoPageResult
    /\ UNCHANGED <<workers, payments, transactions, settings, na_object, nav, serial, sessions>>

\* Save Transaction without the test of the amount
AddTransaction_NoCheck(tx_date, tx_type, categorized, amount) ==
    /\ Cardinality(transactions) < MaxAppTx
    /\ IF ~categorized
       THEN UNCHANGED <<transactions, serial>>
       ELSE /\ transactions' = transactions \cup
                   {[id |-> serial.transactions, date |-> tx_date, type |-> tx_type,
                     amount |-> amount]}
            /\ serial' = [serial EXCEPT !.transactions = @ + 1]
    /\ NoPageResult
    /\ UNCHANGED <<workers, attendance, payments, settings, na_object, nav, sessions, history>>

\* render_accounts, Save Transaction: rejected without a category or with an amount <= 0
AddTransaction(tx_date, tx_type, categorized, amount) ==
    /\ Cardinality(transactions) < MaxAppTx
    /\ IF ~categorized \/ amount <= 0
       THEN UNCHANGED <<transactions, serial>>
       ELSE /\ transactions' = transactions \cup
                   {[id |-> serial.transactions, date |-> tx_date, type |-> tx_type,
                     amount |-> amount]}
            /\ serial' = [serial EXCEPT !.transactions = @ + 1]
    /\ NoPageResult
    /\ UNCHANGED <<workers, attendance, payments, settings, na_object, nav, sessions, history>>

\* Save Payment replacing the payment rows the worker has on that date
AddPayment_Replace(worker_id, pay_date, pay_type, pay_amount) ==
    /\ worker_id \in DOMAIN workers
    /\ Cardinality(attendance) + Cardinality(payments) < MaxRows
    /\ IF pay_amount <= 0
       THEN UNCHANGED <<payments, serial>>
       ELSE /\ payments' =
                   { q \in payments : ~(q.worker_id = worker_id /\ q.date = pay_date) }
                   \cup {[id |-> serial.worker_payments, worker_id |-> worker_id,
                          date |-> pay_date, amount |-> pay_amount, type |-> pay_type]}
            /\ serial' = [serial EXCEPT !.worker_payments = @ + 1]
    /\ NoPageResult
    /\ UNCHANGED <<workers, attendance, transactions, settings, na_object, nav, sessions, history>>

\* render_accounts, Save Payment, for any stored worker: rejected with an amount <= 0
AddPayment(worker_id, pay_date, pay_type, pay_amount) ==
    /\ worker_id \in DOMAIN workers
    /\ Cardinality(attendance) + Cardinality(payments) < MaxRows
    /\ IF pay_amount <= 0
       THEN UNCHANGED <<payments, serial>>
       ELSE /\ payments' = payments \cup
                   {[id |-> serial.worker_payments, worker_id |-> worker_id,
                     date |-> pay_date, amount |-> pay_amount, type |-> pay_type]}
            /\ serial' = [serial EXCEPT !.worker_payments = @ + 1]
    /\ NoPageResult
    /\ UNCHANGED <<workers, attendance, transactions, settings, na_object, nav, sessions, history>>

\* render_payroll, Record Salary Payment: the run computes the payroll of
\* [start, end], returns when it is empty, and the form pays a worker of its rows;
\* an amount <= 0 is rejected and the page shows the payroll it computed
RecordSalaryPayment(start, end, selected_id, pay_date, amount_to_pay) ==
    /\ Cardinality(attendance) + Cardinality(payments) < MaxRows
    /\ \E att_rows \in get_attendance_range_df(start, end) :
       \E pay_rows \in get_worker_payments_range_df(start, end) :
          LET payroll_df == calculate_payroll(att_rows, pay_rows)
          IN  /\ payroll_df # <<>>
              /\ \E k \in DOMAIN payroll_df : payroll_df[k].worker_id = selected_id
              /\ IF amount_to_pay <= 0
                 THEN /\ UNCHANGED <<payments, serial>>
                      /\ payroll' = [called |-> TRUE, start |-> start, end |-> end,
                                     att |-> att_rows, pay |-> pay_rows, rows |-> payroll_df]
                 ELSE /\ payments' = payments \cup
                             {[id |-> serial.worker_payments, worker_id |-> selected_id,
                               date |-> pay_date, amount |-> amount_to_pay, type |-> "PAYMENT"]}
                      /\ serial' = [serial EXCEPT !.worker_payments = @ + 1]
                      /\ payroll' = NoPayroll
    /\ notes' = NoNotes
    /\ UNCHANGED <<workers, attendance, transactions, settings, na_object, nav, sessions, history>>

\* set_setting(conn, key, value): upsert of the key's row
set_setting(table, key, value) == [table EXCEPT ![key] = <<value>>]

\* render_settings, Save Settings: both thresholds are stored
SaveSettings(expense_th, flow_th) ==
    /\ settings' = set_setting(set_setting(settings, "expense_threshold", expense_th),
                               "fund_flow_threshold", flow_th)
    /\ NoPageResult
    /\ UNCHANGED <<workers, attendance, payments, transactions, na_object, nav,
                   serial, sessions, history>>

-----------------------------------------------------------------------------
(* The application: every page, one session, from the empty store *)

AppInit ==
    /\ workers = <<>>
    /\ attendance = {}
    /\ payments = {}
    /\ transactions = {}
    /\ settings = [key \in SettingKeys |-> <<>>]
    /\ na_object = PyNone
    /\ payroll = NoPayroll
    /\ notes = NoNotes
    /\ serial = [attendance |-> 1, worker_payments |-> 1, transactions |-> 1]
    /\ sessions = [s \in Sessions |-> Idle]
    /\ history = NoHistory
    /\ nav = [s \in Sessions |-> OnDashboard]

AppNext ==
    \/ \E named, is_active \in BOOLEAN, daily_rate \in FormRates :
          AddWorker(named, daily_rate, is_active)
    \/ \E selected_id \in 1..MaxWorkers, new_daily_rate \in FormRates \ {0},
          new_active \in BOOLEAN :
          UpdateWorker(selected_id, new_daily_rate, new_active)
    \/ \E selected_id \in 1..MaxWorkers : MarkInactive(selected_id)
    \/ \E worker_id \in 1..MaxWorkers, att_date \in Dates, mark \in AppMarks :
          SaveAttendance(worker_id, att_date, mark)
    \/ \E att_id \in 1..MaxIds, mark \in AppMarks : ModifyAttendance(att_id, mark)
    \/ \E att_id \in 1..MaxIds : DeleteAttendance(att_id)
    \/ \E categorized \in BOOLEAN, amount \in FormTxAmounts :
          AddTransaction(Today, "EXPENSE", categorized, amount)
    \/ \E worker_id \in 1..MaxWorkers, pay_date \in Dates, pay_type \in PayTypes,
          pay_amount \in FormAmounts :
          AddPayment(worker_id, pay_date, pay_type, pay_amount)
    \/ \E start, end, pay_date \in Dates, selected_id \in 1..MaxWorkers,
          amount_to_pay \in FormAmounts :
          RecordSalaryPayment(start, end, selected_id, pay_date, amount_to_pay)
    \/ \E th \in FormSettings : SaveSettings(th[1], th[2])
    \/ RenderPayroll(1, MaxDate)
    \/ RenderDashboard

SpecApp == AppInit /\ [][AppNext]_vars

-----------------------------------------------------------------------------
(* Concurrent sessions saving attendance, and the payroll page *)

SessionsInit ==
    /\ workers = <<[id |-> 1, daily_rate |-> Rupees(800), is_active |-> TRUE]>>
    /\ attendance = {}
    /\ payments = {}
    /\ transactions = {}
    /\ settings = [key \in SettingKeys |-> <<>>]
    /\ na_object = PyNone
    /\ payroll = NoPayroll
    /\ notes = NoNotes
    /\ serial = [attendance |-> 1, worker_payments |-> 1, transactions |-> 1]
    /\ sessions = [s \in Sessions |-> Idle]
    /\ history = NoHistory
    /\ nav = [s \in Sessions |-> OnDashboard]

SessionsNext ==
    \/ \E s \in Sessions, worker_id \in 1..MaxWorkers, att_date \in Dates, mark \in FormMarks :
          SaveSelect(s, worker_id, att_date, mark)
    \/ \E s \in Sessions : SaveWrite(s)
    \/ \E start, end \in Dates : RenderPayroll(start, end)

SpecSessions == SessionsInit /\ [][SessionsNext]_vars

-----------------------------------------------------------------------------
(* main: login, the sidebar buttons and the page dispatch *)

\* the labels of the seven nav_button calls, in their order
NavLabels == <<"Dashboard", "Workers", "Attendance", "Accounts", "Payroll", "Reports", "Settings">>
NavButtons == { NavLabels[i] : i \in DOMAIN NavLabels }

\* st.session_state of a new session: logged_in False, active_page not set
NewSession == [logged_in |-> FALSE, active_page |-> "", clicked |-> "", rendered |-> <<>>]

\* the if / elif chain on page: the render functions the run invokes
Dispatch(page) ==
    IF page = "Dashboard" THEN <<"render_dashboard">>
    ELSE IF page = "Workers" THEN <<"render_workers">>
    ELSE IF page = "Attendance" THEN <<"render_attendance">>
    ELSE IF page = "Accounts" THEN <<"render_accounts">>
    ELSE IF page = "Payroll" THEN <<"render_payroll">>
    ELSE IF page = "Reports & Insights" THEN <<"render_reports">>
    ELSE IF page = "Settings" THEN <<"render_settings">>
    ELSE <<>>

\* the nav_button calls: the button clicked in this run, if any, stores its label
AfterButtons(active_page, clicked) ==
    LET RECURSIVE Press(_, _)
        Press(i, page) ==
            IF i > Len(NavLabels) THEN page
            ELSE Press(i + 1, IF clicked = NavLabels[i] THEN NavLabels[i] ELSE page)
    IN  Press(1, active_page)

\* a run of main() of a logged-in session, with the sidebar button clicked ("" for none)
RunMain(s, clicked) ==
    /\ nav[s].logged_in
    /\ LET page == AfterButtons(IF nav[s].active_page = "" THEN "Dashboard"
                                ELSE nav[s].active_page, clicked)
       IN  nav' = [nav EXCEPT ![s] = [logged_in |-> TRUE, active_page |-> page,
                                      clicked |-> clicked, rendered |-> Dispatch(page)]]
    /\ UNCHANGED <<workers, attendance, payments, transactions, settings, na_object,
                   payroll, notes, serial, sessions, history>>

\* a run of main() of a session not logged in: render_login_modal; a Login click
\* with valid credentials sets logged_in and reruns main(), which sets active_page
\* to "Dashboard" and dispatches
Login(s, valid) ==
    /\ ~nav[s].logged_in
    /\ nav' = [nav EXCEPT ![s] =
                  IF valid
                  THEN [logged_in |-> TRUE, active_page |-> "Dashboard", clicked |-> "",
                        rendered |-> Dispatch("Dashboard")]
                  ELSE [nav[s] EXCEPT !.rendered = <<"render_login_modal">>]]
    /\ UNCHANGED <<workers, attendance, payments, transactions, settings, na_object,
                   payroll, notes, serial, sessions, history>>

NavInit ==
    /\ workers = <<>>
    /\ attendance = {}
    /\ payments = {}
    /\ transactions = {}
    /\ settings = [key \in SettingKeys |-> <<>>]
    /\ na_object = PyNone
    /\ payroll = NoPayroll
    /\ notes = NoNotes
    /\ serial = [attendance |-> 1, worker_payments |-> 1, transactions |-> 1]
    /\ sessions = [s \in Sessions |-> Idle]
    /\ history = NoHistory
    /\ nav = [s \in Sessions |-> NewSession]

NavNext ==
    \/ \E s \in Sessions, valid \in BOOLEAN : Login(s, valid)
    \/ \E s \in Sessions, clicked \in NavButtons \cup {""} : RunMain(s, clicked)

SpecNav == NavInit /\ [][NavNext]_vars

-----------------------------------------------------------------------------
(* The payroll engine on every stored state within the bounds *)

WorkerTables ==
    UNION { [1..n -> BOOLEAN] : n \in 0..MaxWorkers }

\* the table holding contents s[1], ..., s[n] under the ids 1..n
WithIds(s) == { [id |-> i] @@ s[i] : i \in DOMAIN s }

AttendanceTables(nw, n) ==
    { WithIds(s) : s \in [1..n -> [worker_id : 1..nw, date : Dates,
                                   status : Statuses, hours : HoursValues]] }

PaymentTables(nw, n) ==
    { WithIds(s) : s \in [1..n -> [worker_id : 1..nw, date : Dates,
                                   amount : Amounts, type : PayTypes]] }

PayrollInit ==
    /\ \E active \in WorkerTables :
          workers = [ i \in DOMAIN active |->
                        [id |-> i, daily_rate |-> RateOf(i), is_active |-> active[i]] ]
    /\ \E na \in 0..MaxRows : \E np \in 0..(MaxRows - na) :
          /\ attendance \in AttendanceTables(Len(workers), na)
          /\ payments \in PaymentTables(Len(workers), np)
    /\ transactions = {}
    /\ settings = [key \in SettingKeys |-> <<>>]
    /\ na_object \in {PyNone, NaN}
    /\ payroll = NoPayroll
    /\ notes = NoNotes
    /\ serial = [attendance |-> Cardinality(attendance) + 1,
                 worker_payments |-> Cardinality(payments) + 1,
                 transactions |-> 1]
    /\ sessions = [s \in Sessions |-> Idle]
    /\ history = NoHistory
    /\ nav = [s \in Sessions |-> OnDashboard]

PayrollNext == \E start, end \in Dates : RenderPayroll(start, end)

SpecPayroll == PayrollInit /\ [][PayrollNext]_vars

-----------------------------------------------------------------------------
(* The notification engine on every transaction table within the bounds *)

\* an order of the transactions of the model, to list each table once (the ids
\* are labels: tables that differ by a renumbering of the rows are one table)
TxKey(t) == t.date * 2 * Rupees(1000) + (IF t.type = "INCOME" THEN Rupees(1000) ELSE 0) + t.amount

TransactionTables ==
    UNION { { WithIds(s) : s \in { q \in [1..n -> TxKinds] :
                                     \A i \in 1..n : i < n => TxKey(q[i]) <= TxKey(q[i + 1]) } } :
            n \in 0..MaxTx }

NotifyInit ==
    /\ workers = <<>>
    /\ attendance = {}
    /\ payments = {}
    /\ transactions \in TransactionTables
    /\ settings \in [SettingKeys -> SettingValues]
    /\ na_object = PyNone
    /\ payroll = NoPayroll
    /\ notes = NoNotes
    /\ serial = [attendance |-> 1, worker_payments |-> 1,
                 transactions |-> Cardinality(transactions) + 1]
    /\ sessions = [s \in Sessions |-> Idle]
    /\ history = NoHistory
    /\ nav = [s \in Sessions |-> OnDashboard]

NotifyNext == RenderDashboard

SpecNotify == NotifyInit /\ [][NotifyNext]_vars

-----------------------------------------------------------------------------
(* Properties of calculate_payroll *)

Rows == payroll.rows
\* the indexes of the rows returned for worker id i
RowsOf(i) == { k \in DOMAIN Rows : Rows[k].worker_id = i }
\* the frame of the attendance rows the call fetched, and the collapsed days of worker i
FetchedFrame == DataFrame(payroll.att)
FetchedOf(i) == SelectSeq(FetchedFrame, LAMBDA r : r.worker_id = i)
CollapsedDaysOf(i) == w_att_by_day(FetchedOf(i))
InRange(d) == payroll.start <= d /\ d <= payroll.end

\* c cents is x sixteenths of a rupee rounded to 2 decimals (to the nearest cent)
NearestCents(c, x) == c.k = "num" /\ 16 * c.v - 100 * x \in -8..8
\* m thousandths is x sixteenths of a day rounded to 3 decimals
NearestThousandths(m, x) == m.k = "num" /\ 16 * m.v - 1000 * x \in -8..8

Min(a, b) == IF a < b THEN a ELSE b
Over8(h) == IF h > Hrs(8) THEN h - Hrs(8) ELSE 0

\* C1: calculate_payroll returns exactly one row for each worker whose is_active
\* is true and no row for a worker whose is_active is false, whatever attendance
\* or payment rows exist for them.
C1_OneRowPerActiveWorker ==
    payroll.called =>
        /\ \A k \in DOMAIN Rows : Rows[k].worker_id \in DOMAIN workers
        /\ \A i \in DOMAIN workers :
             Cardinality(RowsOf(i)) = IF workers[i].is_active THEN 1 ELSE 0

\* C1 witness: a call over a range in which an inactive worker has an attendance
\* row and a payment row, beside an active worker, returned one row.
C1_Witness ==
    /\ payroll.called
    /\ \E i, j \in DOMAIN workers :
         /\ workers[i].is_active /\ ~workers[j].is_active
         /\ \E a \in attendance : a.worker_id = j /\ InRange(a.date)
         /\ \E p \in payments : p.worker_id = j /\ InRange(p.date)
    /\ Len(Rows) = 1

\* C2: in every row the reported (2-decimal rounded) values satisfy
\* net_payable = gross_salary - total_advance - total_payment_done exactly
\* (stated for the rows whose four values are numbers).
C2_Conservation ==
    payroll.called =>
        \A k \in DOMAIN Rows :
            LET r == Rows[k]
            IN  (r.gross_salary.k = "num" /\ r.net_payable.k = "num") =>
                    r.net_payable.v = r.gross_salary.v - r.total_advance.v - r.total_payment_done.v

\* the rows of worker i the call fetched, in the order storage returned them
FetchedRowsOf(i) == SelectSeq(payroll.att, LAMBDA r : r.worker_id = i)

\* one record per day of the rows w_att, days ascending: status and hours of the
\* last row of the day, empty hours as None (which the loop reads as 8.0)
LastRowPerDay(w_att) ==
    LET Group(d) == SelectSeq(w_att, LAMBDA r : r.date = d)
        Last(d) == Group(d)[Len(Group(d))]
        RECURSIVE Days(_)
        Days(d) == IF d = 0 THEN <<>>
                   ELSE Days(d - 1) \o
                        (IF Group(d) = <<>> THEN <<>>
                         ELSE <<[att_day |-> d,
                                 status |-> Last(d).status,
                                 hours |-> IF Last(d).hours = Null THEN PyNone
                                           ELSE Num(Last(d).hours[1])]>>)
    IN  Days(MaxDate)

\* C3: for a worker with N >= 1 attendance rows on one day in range, the day's
\* pay is computed from exactly one of them, the last in date-then-insertion
\* order: status and hours both come from that row (also when its hours are
\* empty), so every row is the one computed from the last row of each day.
\* (Stated for the rows whose gross_salary is a number.)
C3_LastRowOfDay ==
    payroll.called =>
        \A k \in DOMAIN Rows :
            Rows[k].gross_salary.k = "num" =>
                Rows[k] = RowOfDays(workers[Rows[k].worker_id],
                                    LastRowPerDay(FetchedRowsOf(Rows[k].worker_id)), payroll.pay)

\* C4: a collapsed Present day with hours h > 0 at daily rate r adds
\* (min(h,8)/8)*r + max(0,h-8)*(r/8) to gross_salary, 1 to days_present,
\* max(0,h-8) to overtime_hours and min(h,8)/8 + max(0,h-8)/8 to
\* worked_days_equivalent: stated for the workers all of whose days are such days.
C4_PresentDayPay ==
    payroll.called =>
        \A k \in DOMAIN Rows :
            LET r == Rows[k]
                days == CollapsedDaysOf(r.worker_id)
                rate == workers[r.worker_id].daily_rate
                h(j) == days[j].hours.v
            IN  (/\ days # <<>>
                 /\ \A j \in DOMAIN days :
                      days[j].status = "Present" /\ days[j].hours.k = "num" /\ h(j) > 0)
                => /\ NearestCents(r.gross_salary,
                        SumSeq([ j \in DOMAIN days |->
                                   (Min(h(j), Hrs(8)) * rate) \div Hrs(8)
                                   + (Over8(h(j)) * rate) \div Hrs(8) ]))
                   /\ r.days_present = Len(days)
                   /\ r.half_days = 0
                   /\ r.overtime_hours = Num(SumSeq([ j \in DOMAIN days |-> Over8(h(j)) ]))
                   /\ NearestThousandths(r.worked_days_equivalent,
                        SumSeq([ j \in DOMAIN days |-> Min(h(j), Hrs(8)) + Over8(h(j)) ]))

\* C4 witness: the worker at 800.00 a day with one Present day of 10 hours is
\* paid 1000.00 with 2 overtime hours.
C4_Witness ==
    /\ payroll.called
    /\ \E k \in DOMAIN Rows :
         /\ Rows[k].daily_rate = Rupees(800)
         /\ CollapsedDaysOf(Rows[k].worker_id)
              = <<[att_day |-> 1, status |-> "Present", hours |-> Num(Hrs(10))]>>
         /\ Rows[k].gross_salary = Num(100000)
         /\ Rows[k].overtime_hours = Num(Hrs(2))
         /\ Rows[k].days_present = 1

\* C5: a collapsed Present day whose hours field is absent, null, empty or <= 0
\* is treated as 8.0 hours: one full daily_rate, no overtime, one day present
\* and one worked-day equivalent: stated for the workers all of whose days are
\* such days.
\* (Stated for a pandas whose GroupBy.last() gives None for an all-null column.)
C5_DefaultHours ==
    (payroll.called /\ na_object = PyNone) =>
        \A k \in DOMAIN Rows :
            LET r == Rows[k]
                days == CollapsedDaysOf(r.worker_id)
                rate == workers[r.worker_id].daily_rate
            IN  (/\ days # <<>>
                 /\ \A j \in DOMAIN days :
                      /\ days[j].status = "Present"
                      /\ days[j].hours.k = "num" => days[j].hours.v <= 0)
                => /\ NearestCents(r.gross_salary, Len(days) * rate)
                   /\ r.days_present = Len(days)
                   /\ r.overtime_hours = Num(0)
                   /\ NearestThousandths(r.worked_days_equivalent, Len(days) * Hrs(8))

\* C6: a collapsed Half-Day day adds 0.5 * daily_rate to gross_salary whatever
\* the hours field holds, 1 to half_days and 0.5 to worked_days_equivalent, and
\* leaves days_present and overtime_hours unchanged: stated for the workers
\* without a Present day, whose other days (Absent, Leave) add nothing.
C6_HalfDayPay ==
    payroll.called =>
        \A k \in DOMAIN Rows :
            LET r == Rows[k]
                days == CollapsedDaysOf(r.worker_id)
                rate == workers[r.worker_id].daily_rate
                n == Cardinality({ j \in DOMAIN days : days[j].status = "Half-Day" })
            IN  (\A j \in DOMAIN days : days[j].status # "Present")
                => /\ NearestCents(r.gross_salary, n * (rate \div 2))
                   /\ r.half_days = n
                   /\ r.days_present = 0
                   /\ r.overtime_hours = Num(0)
                   /\ NearestThousandths(r.worked_days_equivalent, n * Hrs(4))

\* C6 witness: a worker at 800.00 a day with one Half-Day whose hours field
\* holds 10 hours has gross 400.00, half_days 1 and days_present 0.
C6_Witness ==
    /\ payroll.called
    /\ \E k \in DOMAIN Rows :
         /\ Rows[k].daily_rate = Rupees(800)
         /\ CollapsedDaysOf(Rows[k].worker_id)
              = <<[att_day |-> 1, status |-> "Half-Day", hours |-> Num(Hrs(10))]>>
         /\ Rows[k].gross_salary = Num(40000)
         /\ Rows[k].half_days = 1
         /\ Rows[k].days_present = 0

\* C7: an active worker with no attendance rows in the range still gets a row,
\* with gross_salary, days_present, half_days and overtime_hours 0 and
\* net_payable minus the sum of the worker's ADVANCE and PAYMENT amounts dated
\* in the range.
C7_ZeroAttendanceWorker ==
    payroll.called =>
        \A i \in DOMAIN workers :
            (/\ workers[i].is_active
             /\ ~\E a \in attendance : a.worker_id = i /\ InRange(a.date))
            => /\ RowsOf(i) # {}
               /\ \A k \in RowsOf(i) :
                    LET paid == { p \in payments : p.worker_id = i /\ InRange(p.date) }
                        RECURSIVE Total(_)
                        Total(ps) == IF ps = {} THEN 0
                                     ELSE LET p == CHOOSE q \in ps : TRUE
                                          IN  p.amount + Total(ps \ {p})
                    IN  /\ Rows[k].gross_salary = Num(0)
                        /\ Rows[k].days_present = 0
                        /\ Rows[k].half_days = 0
                        /\ Rows[k].overtime_hours = Num(0)
                        /\ Rows[k].net_payable.k = "num"
                        /\ 16 * Rows[k].net_payable.v = - 100 * Total(paid)

\* C7 witness: an active worker without attendance in the range, with an ADVANCE
\* and a PAYMENT dated in it, has a row with a negative net_payable.
C7_Witness ==
    /\ payroll.called
    /\ \E k \in DOMAIN Rows :
         /\ ~\E a \in attendance : a.worker_id = Rows[k].worker_id
         /\ \E p, q \in payments :
              /\ p.worker_id = Rows[k].worker_id /\ q.worker_id = Rows[k].worker_id
              /\ p.type = "ADVANCE" /\ q.type = "PAYMENT"
              /\ InRange(p.date) /\ InRange(q.date)
         /\ Rows[k].gross_salary = Num(0)
         /\ Rows[k].net_payable.v < 0

\* the row of a worker without attendance and payments
ZeroRow(r) ==
    /\ r.gross_salary = Num(0) /\ r.days_present = 0 /\ r.half_days = 0
    /\ r.overtime_hours = Num(0) /\ r.worked_days_equivalent = Num(0)
    /\ r.total_advance = Num(0) /\ r.total_payment_done = Num(0) /\ r.net_payable = Num(0)

\* C8 as claimed: called with end_date earlier than start_date, calculate_payroll
\* returns an empty result set, even when active workers exist.
C8_EmptyWhenReversed ==
    (payroll.called /\ payroll.end < payroll.start) => Rows = <<>>

\* C8 as amended: called with end_date earlier than start_date, calculate_payroll
\* returns one row per active worker, every value of it 0 (so an empty result
\* only when no worker is active).
C8_ZeroRowsWhenReversed ==
    (payroll.called /\ payroll.end < payroll.start) =>
        /\ \A i \in DOMAIN workers :
             Cardinality(RowsOf(i)) = IF workers[i].is_active THEN 1 ELSE 0
        /\ \A k \in DOMAIN Rows : ZeroRow(Rows[k])

\* C8 witness: a call with end before start, for an active worker who has a
\* Present day and a payment stored, returned a row.
C8_Witness ==
    /\ payroll.called /\ payroll.end < payroll.start
    /\ \E k \in DOMAIN Rows :
         /\ \E a \in attendance : a.worker_id = Rows[k].worker_id /\ a.status = "Present"
         /\ \E p \in payments : p.worker_id = Rows[k].worker_id
         /\ ZeroRow(Rows[k])

\* C9: running calculate_payroll twice over the same stored data with the same
\* date range yields identical rows, for every order in which storage may
\* return the rows of one date.
C9_Idempotent ==
    [][(payroll.called /\ payroll'.called /\ payroll'.start = payroll.start
        /\ payroll'.end = payroll.end) => payroll'.rows = payroll.rows]_vars

-----------------------------------------------------------------------------
(* Properties of check_notifications *)

\* the sum of the stored EXPENSE amounts dated d
StoredExpense(d) ==
    LET RECURSIVE Total(_)
        Total(ts) == IF ts = {} THEN 0
                     ELSE LET t == CHOOSE u \in ts : TRUE IN t.amount + Total(ts \ {t})
    IN  Total({ t \in transactions : t.type = "EXPENSE" /\ t.date = d })
\* the days of today-30..today with a stored expense row
WindowExpenseDays ==
    { d \in (Today - WindowDays)..Today : \E t \in transactions : t.type = "EXPENSE" /\ t.date = d }
RECURSIVE SumOver(_)
SumOver(days) == IF days = {} THEN 0
                 ELSE LET d == CHOOSE e \in days : TRUE IN StoredExpense(d) + SumOver(days \ {d})
HighExpenseAlerts == { i \in DOMAIN notes.msgs : notes.msgs[i].kind = "High daily expense" }

\* the scenario of the claim: expenses on three days of the window before today
\* summing to 100, 200 and 300 a day, and 350 today
Scenario ==
    LET before == WindowExpenseDays \ {Today}
    IN  /\ Cardinality(before) = 3
        /\ { StoredExpense(d) : d \in before } = {Rupees(100), Rupees(200), Rupees(300)}
        /\ StoredExpense(Today) = Rupees(350)

\* C10 as claimed: with expense_threshold unset and daily expense sums of 100,
\* 200 and 300 on the trailing days (mean 200) and 350 today, the high-expense
\* alert fires with threshold 300 = 1.5 x 200.
C10_ScenarioAlertAt300 ==
    (notes.called /\ settings["expense_threshold"] = <<>> /\ Scenario) =>
        \E i \in HighExpenseAlerts :
            notes.msgs[i].threshold.num = Rupees(300) * notes.msgs[i].threshold.den

\* C10 as amended: with expense_threshold unset, the high-expense alert is
\* emitted iff today's EXPENSE sum is greater than 1.5 x the mean of the daily
\* EXPENSE sums of today-30..today, today's own sum included (days without an
\* expense row excluded), and it carries that threshold; in the scenario the
\* mean is 237.5, the threshold 356.25, and no alert fires.
C10_DefaultExpenseThreshold ==
    (notes.called /\ settings["expense_threshold"] = <<>>) =>
        LET n == Cardinality(WindowExpenseDays)
            total == SumOver(WindowExpenseDays)
        IN  /\ HighExpenseAlerts # {} <=> (n > 0 /\ 2 * n * StoredExpense(Today) > 3 * total)
            /\ \A i \in HighExpenseAlerts :
                 /\ notes.msgs[i].value = StoredExpense(Today)
                 /\ notes.msgs[i].threshold.num * 2 * n = 3 * total * notes.msgs[i].threshold.den
            /\ Scenario => HighExpenseAlerts = {}

\* C10 witness: check_notifications ran on the scenario with expense_threshold
\* unset, and emitted no high-expense alert.
C10_Witness ==
    /\ notes.called /\ settings["expense_threshold"] = <<>>
    /\ Scenario
    /\ HighExpenseAlerts = {}

\* the sum of the stored INCOME amounts dated d
StoredIncome(d) ==
    LET RECURSIVE Total(_)
        Total(ts) == IF ts = {} THEN 0
                     ELSE LET t == CHOOSE u \in ts : TRUE IN t.amount + Total(ts \ {t})
    IN  Total({ t \in transactions : t.type = "INCOME" /\ t.date = d })
StoredFlow(d) == StoredExpense(d) + StoredIncome(d)
HeavyFlowAlerts == { i \in DOMAIN notes.msgs : notes.msgs[i].kind = "Heavy fund flow" }
\* the stored transactions dated today-30..today
WindowTransactions == { t \in transactions : Today - WindowDays <= t.date /\ t.date <= Today }

\* C11: when the stored value of expense_threshold (fund_flow_threshold) is 0,
\* check_notifications emits no high-expense (heavy-fund-flow) alert however
\* large today's amounts are: the computed default is not substituted.
C11_ZeroDisables ==
    notes.called =>
        /\ settings["expense_threshold"] = <<0>> => HighExpenseAlerts = {}
        /\ settings["fund_flow_threshold"] = <<0>> => HeavyFlowAlerts = {}

\* C11 witness: both stored thresholds are 0, today's expense (350) is above
\* 1.5 x and today's flow above 2 x the mean daily expense (a yesterday of 100
\* makes the mean 225), and check_notifications returned no message.
C11_Witness ==
    /\ notes.called
    /\ settings["expense_threshold"] = <<0>> /\ settings["fund_flow_threshold"] = <<0>>
    /\ StoredExpense(Today) = Rupees(350)
    /\ StoredIncome(Today) >= Rupees(200)
    /\ SumOver(WindowExpenseDays) = Rupees(450) /\ Cardinality(WindowExpenseDays) = 2
    /\ notes.msgs = <<>>

\* C12 as claimed: the heavy-fund-flow alert is emitted iff today's INCOME sum
\* plus today's EXPENSE sum is greater than the flow threshold, the stored
\* fund_flow_threshold when set and otherwise 2 x the average daily expense
\* (0 when the window has no expense).
C12_FlowAlertIffAbove ==
    notes.called =>
        LET n == Cardinality(WindowExpenseDays)
            total == SumOver(WindowExpenseDays)
            stored == settings["fund_flow_threshold"]
        IN  HeavyFlowAlerts # {} <=>
                IF stored # <<>> THEN StoredFlow(Today) > stored[1]
                ELSE IF n = 0 THEN StoredFlow(Today) > 0
                ELSE n * StoredFlow(Today) > 2 * total

\* C12 as amended: the heavy-fund-flow alert is emitted iff the flow threshold
\* is not 0 and today's INCOME sum plus today's EXPENSE sum is greater than it,
\* the threshold being the stored fund_flow_threshold when set and otherwise
\* 2 x the mean of the daily EXPENSE sums of today-30..today (0 when the window
\* has no expense); the outcome is a function of the transactions and of
\* fund_flow_threshold alone, whatever expense_threshold holds and whether or
\* not the high-expense alert fired.
C12_FlowAlertIffNonzeroAndAbove ==
    notes.called =>
        LET n == Cardinality(WindowExpenseDays)
            total == SumOver(WindowExpenseDays)
            stored == settings["fund_flow_threshold"]
        IN  /\ HeavyFlowAlerts # {} <=>
                 IF stored # <<>> THEN stored[1] # 0 /\ StoredFlow(Today) > stored[1]
                 ELSE n > 0 /\ n * StoredFlow(Today) > 2 * total
            /\ \A i \in HeavyFlowAlerts :
                 /\ notes.msgs[i].value = StoredFlow(Today)
                 /\ IF stored # <<>> THEN notes.msgs[i].threshold = [num |-> stored[1], den |-> 1]
                    ELSE notes.msgs[i].threshold.num * n = 2 * total * notes.msgs[i].threshold.den

\* C12 witness: with fund_flow_threshold unset, expenses of 200 yesterday and
\* 350 today and an income of 200 today, the flow of 550 equals 2 x the mean
\* (275) and no heavy-fund-flow alert fired, while the high-expense check is
\* disabled by a stored 0.
C12_Witness ==
    /\ notes.called
    /\ settings["fund_flow_threshold"] = <<>> /\ settings["expense_threshold"] = <<0>>
    /\ StoredExpense(Today) = Rupees(350) /\ StoredIncome(Today) = Rupees(200)
    /\ WindowExpenseDays = {Today - 1, Today} /\ StoredExpense(Today - 1) = Rupees(200)
    /\ HeavyFlowAlerts = {}

\* the expense check is breached: its threshold is not 0 and today's expense is above it
HighBreached ==
    LET n == Cardinality(WindowExpenseDays)
        stored == settings["expense_threshold"]
    IN  IF stored # <<>> THEN stored[1] # 0 /\ StoredExpense(Today) > stored[1]
        ELSE n > 0 /\ 2 * n * StoredExpense(Today) > 3 * SumOver(WindowExpenseDays)
\* the flow check is breached
FlowBreached ==
    LET n == Cardinality(WindowExpenseDays)
        stored == settings["fund_flow_threshold"]
    IN  IF stored # <<>> THEN stored[1] # 0 /\ StoredFlow(Today) > stored[1]
        ELSE n > 0 /\ n * StoredFlow(Today) > 2 * SumOver(WindowExpenseDays)

\* C13: check_notifications returns a list of 0 to 2 messages: exactly one
\* high-expense message iff that check is breached, exactly one heavy-fund-flow
\* message iff that check is breached, the high-expense message first, and the
\* empty list when nothing breaches or the window holds no transactions.
C13_MessageList ==
    notes.called =>
        /\ Len(notes.msgs) \in 0..2
        /\ Cardinality(HighExpenseAlerts) = IF HighBreached THEN 1 ELSE 0
        /\ Cardinality(HeavyFlowAlerts) = IF FlowBreached THEN 1 ELSE 0
        /\ Len(notes.msgs) = Cardinality(HighExpenseAlerts) + Cardinality(HeavyFlowAlerts)
        /\ (HighExpenseAlerts # {} /\ HeavyFlowAlerts # {}) => HighExpenseAlerts = {1}
        /\ WindowTransactions = {} => notes.msgs = <<>>

\* C13 witness: both checks breached, and the list is the high-expense message
\* followed by the heavy-fund-flow message.
C13_Witness ==
    /\ notes.called
    /\ HighBreached /\ FlowBreached
    /\ Len(notes.msgs) = 2
    /\ notes.msgs[1].kind = "High daily expense" /\ notes.msgs[2].kind = "Heavy fund flow"

-----------------------------------------------------------------------------
(* Properties of Save Attendance *)

\* the attendance row the last Save Attendance wrote
Saved == history.save[1]
\* the payroll page ran over a range holding the saved day, with no handler in flight
PayrollAfterSave ==
    /\ payroll.called /\ history.save # <<>> /\ InFlight = 0
    /\ InRange(Saved.date)
\* the worker's row pays the saved day according to the saved status and hours:
\* it is the row computed from the worker's other days as fetched and, for the
\* saved day, the saved status and hours alone
PaidAsSaved ==
    \A k \in RowsOf(Saved.worker_id) :
        LET other == SelectSeq(FetchedRowsOf(Saved.worker_id), LAMBDA r : r.date # Saved.date)
            day == [id |-> 0, worker_id |-> Saved.worker_id, date |-> Saved.date,
                    status |-> Saved.status, hours |-> Num(Saved.hours)]
        IN  Rows[k] = RowOfDays(workers[Saved.worker_id],
                                w_att_by_day(DataFrame(other) \o <<day>>), payroll.pay)

\* C14: when two sessions concurrently save attendance for the same (worker,
\* date), in every interleaving of their select / insert / update steps, after
\* both finish the attendance payroll uses for the pair carries the status and
\* hours of whichever session's write reached storage last.
C14_LastWriteWins ==
    (PayrollAfterSave /\ history.raced) => PaidAsSaved

\* C19: in every reachable state, duplicates for a (worker, date) included, once
\* a Save Attendance of (status, hours) for the pair has run from its select to
\* its write with no other operation in flight, the next calculate_payroll over
\* a range containing the date pays the day according to (status, hours).
C19_SaveThenPayroll ==
    (PayrollAfterSave /\ history.alone) => PaidAsSaved

-----------------------------------------------------------------------------
(* Properties of the pages that write *)

\* C15: starting from an attendance table without duplicates, after any
\* sequence of Save Attendance, modify and delete operations run one after the
\* other the table holds at most one row per (worker_id, date): Save Attendance
\* updates the existing row in place and inserts only when none exists.
C15_OneRowPerWorkerAndDate ==
    \A a, b \in attendance : (a.worker_id = b.worker_id /\ a.date = b.date) => a = b

\* C15 witness: two rows are stored, and the last Save Attendance found the row
\* of its pair and updated it in place: the row holds what was saved.
C15_Witness ==
    /\ Cardinality(attendance) = 2
    /\ history.op = "update"
    /\ \E a \in attendance :
         /\ a.worker_id = Saved.worker_id /\ a.date = Saved.date
         /\ a.status = Saved.status /\ a.hours = <<Saved.hours>>

\* C16: workers are never hard-deleted: no step removes a stored worker id;
\* Mark as Inactive sets is_active to false on the selected worker and changes
\* no other field and no other worker, and the attendance and payment rows
\* (those of the deactivated worker among them) remain stored.
C16_WorkersNeverDeleted ==
    [][/\ Len(workers') >= Len(workers)
       /\ \A i \in DOMAIN workers : workers'[i].id = workers[i].id
       /\ \A selected_id \in DOMAIN workers :
            MarkInactive(selected_id) =>
                /\ workers'[selected_id].is_active = FALSE
                /\ workers'[selected_id].daily_rate = workers[selected_id].daily_rate
                /\ \A j \in DOMAIN workers : j # selected_id => workers'[j] = workers[j]
                /\ attendance' = attendance
                /\ payments' = payments]_vars

\* C16 witness: a worker is inactive and still has an attendance row and a
\* payment row stored, beside an active worker.
C16_Witness ==
    \E i, j \in DOMAIN workers :
        /\ ~workers[i].is_active /\ workers[j].is_active
        /\ \E a \in attendance : a.worker_id = i
        /\ \E q \in payments : q.worker_id = i

\* C17: worker payments and transactions are append-only: every step leaves
\* each stored worker_payments row and each stored transactions row as it was
\* (it may add rows); none is updated or deleted.
C17_AppendOnly ==
    [][payments \subseteq payments' /\ transactions \subseteq transactions']_vars

\* C17 witness: two payments were recorded for one worker on one day, the
\* second beside the first, and a transaction is stored.
C17_Witness ==
    /\ \E q, r \in payments : q.id # r.id /\ q.worker_id = r.worker_id /\ q.date = r.date
    /\ transactions # {}

\* C18: every write path of transactions and worker payments rejects an amount
\* <= 0 and leaves the store unchanged, so every stored transaction and every
\* stored worker payment has an amount > 0.
C18_PositiveAmounts ==
    /\ \A t \in transactions : t.amount > 0
    /\ \A q \in payments : q.amount > 0

\* C18 witness: a transaction, an ADVANCE and a PAYMENT are stored, each with
\* the positive amount its form submitted.
C18_Witness ==
    /\ \E t \in transactions : t.amount = Rupees(350)
    /\ \E q, r \in payments :
         /\ q.type = "ADVANCE" /\ r.type = "PAYMENT"
         /\ q.amount = Rupees(100) + 4 /\ r.amount = Rupees(100) + 4

\* the rows of the payroll before (r) and after (t) a payment of amount a
\* (sixteenths of a rupee) to the worker of the row: total_payment_done up by a,
\* net_payable down by a, the rest unchanged
PaidRow(r, t, a) ==
    /\ 16 * t.total_payment_done.v = 16 * r.total_payment_done.v + 100 * a
    /\ 16 * t.net_payable.v = 16 * r.net_payable.v - 100 * a
    /\ [t EXCEPT !.total_payment_done = r.total_payment_done,
                 !.net_payable = r.net_payable] = r

\* C20: recording a salary PAYMENT of amount a > 0 for worker w dated inside
\* [start, end] changes the recomputed payroll of the range only in w's row:
\* total_payment_done rises by a, net_payable falls by a, every other value of
\* the row and every other row is unchanged; a payment dated outside the range
\* changes no row.  (Both payrolls computed on the same attendance rows.)
C20_PaymentChangesOnlyItsRow ==
    [][\A q \in payments' \ payments :
          (q.type = "PAYMENT" /\ payments' = payments \cup {q}
           /\ workers' = workers /\ attendance' = attendance) =>
             \A start, end \in Dates :
             \A att_rows \in get_attendance_range_df(start, end) :
             \A pay_rows \in get_worker_payments_range_df(start, end) :
             \A paid_rows \in OrderedByDate({ r \in payments' :
                                               start <= r.date /\ r.date <= end }) :
                 LET before == calculate_payroll(att_rows, pay_rows)
                     after == calculate_payroll(att_rows, paid_rows)
                 IN  /\ DOMAIN after = DOMAIN before
                     /\ \A k \in DOMAIN before :
                          IF before[k].worker_id = q.worker_id
                             /\ start <= q.date /\ q.date <= end
                          THEN PaidRow(before[k], after[k], q.amount)
                          ELSE after[k] = before[k]]_vars

-----------------------------------------------------------------------------
(* Properties of the settings store *)

\* the alerts of the check that reads the setting key, and today's amount it compares
AlertsOf(key) == IF key = "expense_threshold" THEN HighExpenseAlerts ELSE HeavyFlowAlerts
AmountOf(key) == IF key = "expense_threshold" THEN StoredExpense(Today) ELSE StoredFlow(Today)

\* C21: no operation removes a setting: a key that set_setting has stored stays
\* stored in every later step, and get_setting then returns the stored number,
\* never the caller's default; the Settings form stores both keys, so once it
\* has been saved each alert of check_notifications is decided by the stored
\* threshold (emitted iff the stored value is not 0 and today's amount is above
\* it, carrying the stored value), never by the computed default.
C21_SettingsPersist ==
    /\ [][\A key \in SettingKeys : settings[key] # <<>> => settings'[key] # <<>>]_vars
    /\ [](/\ settings["expense_threshold"] = <<>> <=> settings["fund_flow_threshold"] = <<>>
          /\ \A key \in SettingKeys :
               (notes.called /\ settings[key] # <<>>) =>
                   /\ AlertsOf(key) # {} <=>
                        (settings[key][1] # 0 /\ AmountOf(key) > settings[key][1])
                   /\ \A i \in AlertsOf(key) :
                        notes.msgs[i].threshold = [num |-> settings[key][1], den |-> 1])

\* C21 witness: the form stored an expense threshold of 300 and a fund-flow
\* threshold of 0; with one expense of 350 today (mean 350, computed defaults 525
\* and 700) the dashboard shows the high-expense alert at the stored 300 and no
\* fund-flow alert.
C21_Witness ==
    /\ notes.called
    /\ settings["expense_threshold"] = <<Rupees(300)>>
    /\ settings["fund_flow_threshold"] = <<0>>
    /\ StoredExpense(Today) = Rupees(350)
    /\ \E i \in HighExpenseAlerts : notes.msgs[i].threshold = [num |-> Rupees(300), den |-> 1]
    /\ HeavyFlowAlerts = {}

-----------------------------------------------------------------------------
(* Properties of the navigation *)

\* the render function of the page a sidebar button stands for
PageOf(label) ==
    IF label = "Dashboard" THEN "render_dashboard"
    ELSE IF label = "Workers" THEN "render_workers"
    ELSE IF label = "Attendance" THEN "render_attendance"
    ELSE IF label = "Accounts" THEN "render_accounts"
    ELSE IF label = "Payroll" THEN "render_payroll"
    ELSE IF label = "Reports" THEN "render_reports"
    ELSE "render_settings"

\* C22: for a logged-in session every value a navigation button can store in
\* active_page is matched by a dispatch branch: the run after a click on any of
\* the seven sidebar buttons invokes the render function of that button's page,
\* and every run renders exactly one page.
C22_EveryButtonDispatches ==
    \A s \in Sessions :
        nav[s].logged_in =>
            /\ Len(nav[s].rendered) = 1
            /\ nav[s].clicked # "" => nav[s].rendered = <<PageOf(nav[s].clicked)>>

====
